---- MODULE Spec2Model ----
(***************************************************************************)
(* The two pywen hooks of src/pywen/script:                               *)
(*   pywen_userprompt.py  (declaration: CASE_ID=<token> -> registry file)  *)
(*   pywen_stop.py        (completion: registry file -> FIFO / fallback)   *)
(* Every invocation of a hook is a short-lived process.  The processes     *)
(* share the directory $FIFO_DIR: the per-session record files under       *)
(* session_cases/, the object at pywen.done and the log pywen.done.log.    *)
(*                                                                         *)
(* Text is a sequence of characters, one string per character.  The file   *)
(* system stores bytes; write_text / read_text encode and decode UTF-8.    *)
(***************************************************************************)
EXTENDS Integers, Sequences, FiniteSets, TLC

\* Hook invocations started in one behaviour.
MaxInvocations == 2

\* The slots of the hook processes that run at the same time; a process in
\* slot p has process id p.
Procs == {1, 2}

-----------------------------------------------------------------------------
(* Characters.  E2 is a character whose UTF-8 encoding has two bytes       *)
(* (U+00E9); SUR is a lone surrogate (U+D800), which a JSON "\ud800"       *)
(* escape produces and which UTF-8 cannot encode.                          *)

E2 == "e_acute"
SUR == "surrogate"

\* str.isspace / the regex class \s
IsSpace(c) == c \in {" ", "\n", "\r"}

\* the quote characters excluded by CASE_RE's token class
IsQuote(c) == c \in {"'", "\""}

\* [^\s"'] of CASE_RE
IsTokenChar(c) == ~IsSpace(c) /\ ~IsQuote(c)

\* re.IGNORECASE on the letters of the keyword
Lower(c) ==
  CASE c = "C" -> "c"
    [] c = "A" -> "a"
    [] c = "S" -> "s"
    [] c = "E" -> "e"
    [] c = "I" -> "i"
    [] c = "D" -> "d"
    [] OTHER -> c

\* the keyword of CASE_RE, folded
Keyword == <<"c", "a", "s", "e", "_", "i", "d", "=">>

\* CASE_RE.match(prompt): ^CASE_ID=([^\s"']+)\s*$ with re.IGNORECASE.
\* The token is the run of token characters after the keyword; all that
\* follows it must be whitespace.  The result is group(1), or <<>> when the
\* prompt does not match (a match never has an empty group).
CaseReMatch(prompt) ==
  LET k == Len(Keyword)
      n == Len(prompt)
      ends == {e \in (k + 1)..n :
                 /\ \A i \in (k + 1)..e : IsTokenChar(prompt[i])
                 /\ \A i \in (e + 1)..n : IsSpace(prompt[i])}
  IN IF /\ n > k
        /\ \A i \in 1..k : Lower(prompt[i]) = Keyword[i]
        /\ ends # {}
     THEN SubSeq(prompt, k + 1, CHOOSE e \in ends : \A f \in ends : f <= e)
     ELSE <<>>

-----------------------------------------------------------------------------
(* UTF-8.  A byte is a string: an ASCII character is its own byte, E2 is   *)
(* the two bytes C3 A9.                                                    *)

\* str.encode("utf-8") / write_text(encoding="utf-8"): strict, so a lone
\* surrogate raises UnicodeEncodeError.
CanEncode(s) == \A i \in 1..Len(s) : s[i] # SUR

RECURSIVE Utf8Encode(_)
Utf8Encode(s) ==
  IF s = <<>> THEN <<>>
  ELSE (IF Head(s) = E2 THEN <<"C3", "A9">> ELSE <<Head(s)>>)
       \o Utf8Encode(Tail(s))

\* bytes.decode("utf-8", errors="ignore"): a byte that starts no valid
\* sequence is dropped.
RECURSIVE Utf8DecodeIgnore(_)
Utf8DecodeIgnore(b) ==
  IF b = <<>> THEN <<>>
  ELSE IF Head(b) = "C3"
       THEN IF Len(b) >= 2 /\ b[2] = "A9"
            THEN <<E2>> \o Utf8DecodeIgnore(Tail(Tail(b)))
            ELSE Utf8DecodeIgnore(Tail(b))
       ELSE IF Head(b) = "A9"
            THEN Utf8DecodeIgnore(Tail(b))
            ELSE <<Head(b)>> \o Utf8DecodeIgnore(Tail(b))

-----------------------------------------------------------------------------
(* str.strip() and str.splitlines()[0]                                     *)

RECURSIVE LStrip(_)
LStrip(s) ==
  IF s # <<>> /\ IsSpace(Head(s)) THEN LStrip(Tail(s)) ELSE s

RECURSIVE RStrip(_)
RStrip(s) ==
  IF s # <<>> /\ IsSpace(s[Len(s)])
  THEN RStrip(SubSeq(s, 1, Len(s) - 1))
  ELSE s

Strip(s) == RStrip(LStrip(s))

\* s.splitlines()[0] of a non-empty string
FirstLine(s) ==
  LET brk == {i \in 1..Len(s) : s[i] \in {"\n", "\r"}}
  IN IF brk = {} THEN s
     ELSE SubSeq(s, 1, (CHOOSE i \in brk : \A j \in brk : i <= j) - 1)

-----------------------------------------------------------------------------
(* The inbound event.  A JSON value is a record tagged with its type; an   *)
(* object is a function from its keys.  Standard input is empty, is not    *)
(* JSON, or is one JSON value.                                             *)

JNull == [t |-> "null"]
JNum == [t |-> "num"]
JList == [t |-> "list"]
JStr(s) == [t |-> "str", s |-> s]
JDict(d) == [t |-> "dict", d |-> d]
EmptyDict == JDict(<<>>)

\* dict.get(k)
Get(d, k) == IF k \in DOMAIN d THEN d[k] ELSE JNull

\* isinstance(v, dict)
IsDict(v) == v.t = "dict"

\* isinstance(v, str)
IsStr(v) == v.t = "str"

\* pywen_stop.parse_stdin_json: json.loads(raw) if raw else {}, {} on error
parse_stdin_json_stop(stdin) ==
  IF stdin.raw = "json" THEN stdin.v ELSE EmptyDict

\* pywen_userprompt.parse_stdin_json: json.loads(raw), {} on error
parse_stdin_json_userprompt(stdin) ==
  IF stdin.raw = "json" THEN stdin.v ELSE EmptyDict

SessionKeys == <<"session_id", "sessionId", "sessionID", "sid">>

\* extract_session_id(data) of both hooks, data being a dict: the first of
\* the four keys holding a non-empty string, then session.id, then pid_<pid>
extract_session_id(data, pid) ==
  LET hits == {i \in 1..Len(SessionKeys) :
                 LET v == Get(data.d, SessionKeys[i])
                 IN IsStr(v) /\ v.s # <<>>}
      sess == Get(data.d, "session")
  IN IF hits # {}
     THEN Get(data.d, SessionKeys[CHOOSE i \in hits : \A j \in hits : i <= j]).s
     ELSE IF /\ IsDict(sess)
             /\ IsStr(Get(sess.d, "id"))
             /\ Get(sess.d, "id").s # <<>>
          THEN Get(sess.d, "id").s
          ELSE <<"pid_", ToString(pid)>>

PROMPT_KEYS_IN == <<"prompt", "user_prompt", "userPrompt">>

\* the first of PROMPT_KEYS_IN holding a string in dict d, or JNull
FirstPrompt(d) ==
  LET hits == {i \in 1..Len(PROMPT_KEYS_IN) : IsStr(Get(d, PROMPT_KEYS_IN[i]))}
  IN IF hits # {}
     THEN Get(d, PROMPT_KEYS_IN[CHOOSE i \in hits : \A j \in hits : i <= j])
     ELSE JNull

\* extract_prompt(data), data being a dict
extract_prompt(data) ==
  LET top == FirstPrompt(data.d)
      inp == Get(data.d, "input")
  IN IF IsStr(top) THEN top.s
     ELSE IF IsDict(inp) /\ IsStr(FirstPrompt(inp.d))
          THEN FirstPrompt(inp.d).s
          ELSE <<>>

-----------------------------------------------------------------------------
(* Paths.  A session id is a sequence of atoms; "/" is the separator and   *)
(* "." the current-directory component.  CASE_DIR holds plain files only:  *)
(* the hooks create no directory under it.                                 *)

\* the components of a relative path text, as pathlib keeps them: empty
\* components and "." are dropped
RECURSIVE Parts(_, _)
Parts(s, cur) ==
  IF s = <<>>
  THEN IF cur = <<>> \/ cur = <<".">> THEN <<>> ELSE <<cur>>
  ELSE IF Head(s) = "/"
       THEN (IF cur = <<>> \/ cur = <<".">> THEN <<>> ELSE <<cur>>)
            \o Parts(Tail(s), <<>>)
       ELSE Parts(Tail(s), Append(cur, Head(s)))

\* CASE_DIR / f"{session_id}.case", relative to CASE_DIR
CasePath(session_id) == Parts(Append(session_id, ".case"), <<>>)

\* the path names an entry of CASE_DIR itself
InCaseDir(path) == Len(path) = 1

-----------------------------------------------------------------------------
(* Inputs.                                                                 *)

S == <<"S">>
T == <<"T">>
DotS == <<".", "/", "S">>

\* pid_<pid>: the session id synthesized by process slot p
PidSession(p) == <<"pid_", ToString(p)>>

KW == <<"C", "A", "S", "E", "_", "I", "D", "=">>

Json(v) == [raw |-> "json", v |-> v]

\* standard input of a declaration (UserPromptSubmit) invocation
DeclStdin == <<
  \* {"session_id":"S","prompt":"CASE_ID=a"}
  Json(JDict([session_id |-> JStr(S), prompt |-> JStr(KW \o <<"a">>)])),
  \* {"session_id":"","sessionId":"S","user_prompt":"case_id=bb \n"}
  Json(JDict([session_id |-> JStr(<<>>), sessionId |-> JStr(S),
              user_prompt |-> JStr(Keyword \o <<"b", "b", " ", "\n">>)])),
  \* {"session":{"id":"T"},"input":{"prompt":"CASE_ID=é"}}
  Json(JDict([session |-> JDict([id |-> JStr(T)]),
              input |-> JDict([prompt |-> JStr(KW \o <<E2>>)])])),
  \* {"session_id":"S","prompt":"CASE_ID=\ud800"}
  Json(JDict([session_id |-> JStr(S), prompt |-> JStr(KW \o <<SUR>>)])),
  \* {"session_id":"S","prompt":"hello"}
  Json(JDict([session_id |-> JStr(S),
              prompt |-> JStr(<<"h", "e", "l", "l", "o">>)])),
  \* {"session_id":"S","prompt":"CASE_ID='a'"}
  Json(JDict([session_id |-> JStr(S),
              prompt |-> JStr(KW \o <<"'", "a", "'">>)])),
  \* [1]
  Json(JList),
  \* not JSON
  [raw |-> "malformed"],
  \* nothing
  [raw |-> "empty"]
>>

\* standard input of a completion (Stop) invocation
StopStdin == <<
  \* {"session_id":"S"}
  Json(JDict([session_id |-> JStr(S)])),
  \* {"session_id":"./S"}
  Json(JDict([session_id |-> JStr(DotS)])),
  \* {"session_id":5,"sid":"T"}
  Json(JDict([session_id |-> JNum, sid |-> JStr(T)])),
  \* null
  Json(JNull),
  \* not JSON
  [raw |-> "malformed"],
  \* nothing
  [raw |-> "empty"]
>>

\* every session id an invocation can resolve
SessionIds == {S, T, DotS} \cup {PidSession(p) : p \in Procs}

\* the names of the record files the invocations can reach in CASE_DIR
FileNames == {CasePath(s)[1] : s \in {t \in SessionIds : InCaseDir(CasePath(t))}}

\* the sentinel of read_case_id
UNKNOWN == <<"U", "N", "K", "N", "O", "W", "N">>

\* f"{case_id} DONE\n"
Record(case_id) == case_id \o <<" ", "D", "O", "N", "E", "\n">>

\* the outbound events
EmptyEvent == [type |-> "empty", case_id |-> <<>>, mode |-> "none"]
BlockEvent(c) == [type |-> "block", case_id |-> c, mode |-> "none"]
SystemMessage(c, m) == [type |-> "systemMessage", case_id |-> c, mode |-> m]

-----------------------------------------------------------------------------
(* State.  A behaviour starts in the directory as earlier invocations may   *)
(* have left it: session S has declared no case, or the case "a".          *)

VARIABLES
  posix,        \* os.mkfifo exists on this platform
  fifoKind,     \* the object at FIFO_PATH: "absent", "fifo", "file", "dir"
  fifoIno,      \* which FIFO is at FIFO_PATH (counts the FIFOs created)
  readerIno,    \* the FIFO the listener has open for reading, 0 for none
  fifoData,     \* the records written into a FIFO, in order
  fallbackLog,  \* the lines of FALLBACK_LOG
  files,        \* CASE_DIR: name -> [exists, bytes]
  started,      \* invocations started so far
  pc,           \* where each process slot is
  session_id,   \* main's session_id
  prompt,       \* what extract_prompt gave the declaration invocation that
                \* runs or ran last in the slot (<<>> before main got there)
  case_id,      \* main's case_id
  fd,           \* write_done's fd: the FIFO it has open, 0 for none
  stdout,       \* the outbound events the process printed
  exitCode,     \* the process exit code, -1 while running
  prefTries,    \* os.write calls of the invocation on the FIFO
  fallTries,    \* appends to FALLBACK_LOG the invocation attempted
  wrote,        \* the invocation's os.write put the record into the FIFO
  logged,       \* the invocation's append put the record into FALLBACK_LOG
  ioError,      \* a system call of the step the running invocation took
                \* last failed for a reason outside the hooks (EIO, EACCES,
                \* ENOSPC ...), where it would have succeeded otherwise
  declared      \* session id -> the last finished put: its case_id (<<>> for
                \* none) and whether a system call of it failed so

fsVars == <<posix, fifoKind, fifoIno, readerIno, fifoData, fallbackLog, files>>
emitVars == <<fd, prefTries, fallTries, wrote, logged, ioError>>
procVars == <<pc, session_id, case_id, stdout, exitCode>>
vars == <<fsVars, emitVars, procVars, started, declared, prompt>>

NoFile == [exists |-> FALSE, bytes |-> <<>>]

\* an entry of declared
Put(c, failed) == [case |-> c, io |-> failed]

Init ==
  /\ posix \in BOOLEAN
  /\ fifoKind \in {"absent", "fifo", "file", "dir"}
  /\ posix = FALSE => fifoKind # "fifo"
  /\ fifoIno = IF fifoKind = "fifo" THEN 1 ELSE 0
  /\ readerIno = 0
  /\ fifoData = <<>>
  /\ fallbackLog = <<>>
  /\ \E prior \in {<<>>, <<"a">>} :
       /\ declared = [s \in SessionIds |->
                       Put(IF s = S THEN prior ELSE <<>>, FALSE)]
       /\ files = [n \in FileNames |->
                    IF n = CasePath(S)[1] /\ prior # <<>>
                    THEN [exists |-> TRUE, bytes |-> Utf8Encode(prior)]
                    ELSE NoFile]
  /\ started = 0
  /\ pc = [p \in Procs |-> "idle"]
  /\ session_id = [p \in Procs |-> <<>>]
  /\ prompt = [p \in Procs |-> <<>>]
  /\ case_id = [p \in Procs |-> <<>>]
  /\ fd = [p \in Procs |-> 0]
  /\ wrote = [p \in Procs |-> FALSE]
  /\ stdout = [p \in Procs |-> <<>>]
  /\ exitCode = [p \in Procs |-> -1]
  /\ prefTries = [p \in Procs |-> 0]
  /\ fallTries = [p \in Procs |-> 0]
  /\ logged = [p \in Procs |-> FALSE]
  /\ ioError = [p \in Procs |-> FALSE]

-----------------------------------------------------------------------------
(* A hook invocation is a process.  Its first step runs the module level   *)
(* (the two mkdir calls) and main() down to and including its first access *)
(* to the shared directory; what a process computes between two accesses   *)
(* belongs to the step of the earlier access.                              *)

\* the process ends having printed events, with exit code code, and main's
\* locals are gone; an exception nobody catches ends it with a traceback on
\* stderr and exit code 1
Exit(p, events, code) ==
  /\ pc' = [pc EXCEPT ![p] = "done"]
  /\ session_id' = [session_id EXCEPT ![p] = <<>>]
  /\ case_id' = [case_id EXCEPT ![p] = <<>>]
  /\ stdout' = [stdout EXCEPT ![p] = events]
  /\ exitCode' = [exitCode EXCEPT ![p] = code]
  /\ fd' = [fd EXCEPT ![p] = 0]
  /\ ioError' = [ioError EXCEPT ![p] = FALSE]

\* nothing is known yet of what a new invocation did to the two channels
Fresh(p) ==
  /\ prefTries' = [prefTries EXCEPT ![p] = 0]
  /\ fallTries' = [fallTries EXCEPT ![p] = 0]
  /\ wrote' = [wrote EXCEPT ![p] = FALSE]
  /\ logged' = [logged EXCEPT ![p] = FALSE]

\* a new process takes the lowest slot in which no process is running
FreeSlot(p) ==
  /\ pc[p] \in {"idle", "done"}
  /\ \A q \in Procs : q < p => pc[q] \notin {"idle", "done"}

\* the process goes on to label with main's locals sid and cid; err: a
\* system call of this step failed
Goto(p, label, sid, cid, err) ==
  /\ pc' = [pc EXCEPT ![p] = label]
  /\ session_id' = [session_id EXCEPT ![p] = sid]
  /\ case_id' = [case_id EXCEPT ![p] = cid]
  /\ stdout' = [stdout EXCEPT ![p] = <<>>]
  /\ exitCode' = [exitCode EXCEPT ![p] = -1]
  /\ fd' = [fd EXCEPT ![p] = 0]
  /\ ioError' = [ioError EXCEPT ![p] = err]

\* pywen_userprompt.py: module level, main() and the first half of
\* write_session_case: path.write_text opens the file for writing, which
\* creates or truncates it.  An error of the open is swallowed; data.get on
\* a value that is no dict raises AttributeError, which nothing catches.
UserPromptStart(p) ==
  /\ FreeSlot(p)
  /\ started < MaxInvocations
  /\ started' = started + 1
  /\ Fresh(p)
  /\ UNCHANGED <<posix, fifoKind, fifoIno, readerIno, fifoData, fallbackLog>>
  /\ \E i \in 1..Len(DeclStdin), mkdirFails \in BOOLEAN, openFails \in BOOLEAN :
       LET data == parse_stdin_json_userprompt(DeclStdin[i])
       IN IF mkdirFails \/ ~IsDict(data)
          THEN /\ Exit(p, <<>>, 1)
               /\ prompt' = [prompt EXCEPT ![p] = <<>>]
               /\ UNCHANGED <<files, declared>>
          ELSE LET m == CaseReMatch(extract_prompt(data))
                   sid == extract_session_id(data, p)
                   path == CasePath(sid)
               IN /\ prompt' = [prompt EXCEPT ![p] = extract_prompt(data)]
                  /\ IF m = <<>>
                     THEN /\ Exit(p, <<EmptyEvent>>, 0)
                          /\ UNCHANGED <<files, declared>>
                     ELSE IF openFails \/ ~InCaseDir(path)
                          THEN /\ Exit(p, <<BlockEvent(m)>>, 0)
                               /\ declared' = [declared EXCEPT ![sid] =
                                                 Put(m, openFails)]
                               /\ UNCHANGED files
                          ELSE /\ Goto(p, "put_write", sid, m, FALSE)
                               /\ files' = [files EXCEPT ![path[1]] =
                                              [exists |-> TRUE, bytes |-> <<>>]]
                               /\ UNCHANGED declared

\* what a write of bytes b at offset 0 leaves in a file that holds old
WriteAt0(old, b) ==
  IF Len(old) > Len(b) THEN b \o SubSeq(old, Len(b) + 1, Len(old)) ELSE b

\* write_session_case, second half: the text is encoded and written at the
\* offset of this process's file object, which is 0; an error is swallowed.
\* Then main() prints the block decision and returns 0.
WriteData(p) ==
  /\ pc[p] = "put_write"
  /\ \E fails \in BOOLEAN :
       LET name == CasePath(session_id[p])[1]
       IN /\ files' = IF fails \/ ~CanEncode(case_id[p])
                      THEN files
                      ELSE [files EXCEPT ![name].bytes =
                              WriteAt0(@, Utf8Encode(case_id[p]))]
          /\ declared' = [declared EXCEPT ![session_id[p]] =
                            Put(case_id[p], fails)]
  /\ Exit(p, <<BlockEvent(case_id[p])>>, 0)
  /\ UNCHANGED <<posix, fifoKind, fifoIno, readerIno, fifoData, fallbackLog>>
  /\ UNCHANGED <<started, prompt, prefTries, fallTries, wrote, logged>>

-----------------------------------------------------------------------------
(* pywen_stop.py                                                           *)

\* what read_case_id makes of the bytes of an existing record file
CaseOfBytes(bytes) ==
  LET txt == Strip(Utf8DecodeIgnore(bytes))
  IN IF txt # <<>> THEN Strip(FirstLine(txt)) ELSE UNKNOWN

\* read_case_id without splitlines()[0]: the whole trimmed text is returned
read_case_id_all_lines(sid, fails) ==
  LET path == CasePath(sid)
      txt == Strip(Utf8DecodeIgnore(files[path[1]].bytes))
  IN IF ~fails /\ InCaseDir(path) /\ files[path[1]].exists /\ txt # <<>>
     THEN txt
     ELSE UNKNOWN

\* read_case_id(session_id); fails: exists() or read_text raises
read_case_id(sid, fails) ==
  LET path == CasePath(sid)
  IN IF ~fails /\ InCaseDir(path) /\ files[path[1]].exists
     THEN CaseOfBytes(files[path[1]].bytes)
     ELSE UNKNOWN

\* StopStart with a read_case_id that removes the record it has read
StopStartConsuming(p) ==
  /\ FreeSlot(p)
  /\ started < MaxInvocations
  /\ started' = started + 1
  /\ Fresh(p)
  /\ prompt' = [prompt EXCEPT ![p] = <<>>]
  /\ UNCHANGED <<posix, fifoKind, fifoIno, readerIno, fifoData, fallbackLog>>
  /\ UNCHANGED declared
  /\ \E i \in 1..Len(StopStdin), mkdirFails \in BOOLEAN, readFails \in BOOLEAN :
       LET data == parse_stdin_json_stop(StopStdin[i])
       IN IF mkdirFails \/ ~IsDict(data)
          THEN Exit(p, <<>>, 1) /\ UNCHANGED files
          ELSE LET sid == extract_session_id(data, p)
               IN /\ Goto(p, "check", sid, read_case_id(sid, readFails),
                          readFails /\ InCaseDir(CasePath(sid))
                                    /\ files[CasePath(sid)[1]].exists)
                  /\ files' = IF readFails \/ ~InCaseDir(CasePath(sid))
                              THEN files
                              ELSE [files EXCEPT ![CasePath(sid)[1]] = NoFile]

\* module level and main() down to the call of write_done: the session id
\* is extracted and read_case_id reads the record file
StopStart(p) ==
  /\ FreeSlot(p)
  /\ started < MaxInvocations
  /\ started' = started + 1
  /\ Fresh(p)
  /\ prompt' = [prompt EXCEPT ![p] = <<>>]
  /\ UNCHANGED <<fsVars, declared>>
  /\ \E i \in 1..Len(StopStdin), mkdirFails \in BOOLEAN, readFails \in BOOLEAN :
       LET data == parse_stdin_json_stop(StopStdin[i])
       IN IF mkdirFails \/ ~IsDict(data)
          THEN Exit(p, <<>>, 1)
          ELSE LET sid == extract_session_id(data, p)
               IN Goto(p, "check", sid, read_case_id(sid, readFails),
                       readFails /\ InCaseDir(CasePath(sid))
                                 /\ files[CasePath(sid)[1]].exists)

\* ChannelCheck that tests exists() alone: whatever is at the path is taken
\* for the FIFO
ChannelCheckExistsOnly(p) ==
  /\ pc[p] = "check"
  /\ \E fails \in BOOLEAN :
       /\ pc' = [pc EXCEPT ![p] = IF fails THEN "fallback"
                                  ELSE IF fifoKind # "absent" THEN "open"
                                  ELSE "unlink"]
       /\ ioError' = [ioError EXCEPT ![p] = fails]
  /\ session_id' = [session_id EXCEPT ![p] = <<>>]
  /\ UNCHANGED <<fsVars, fd, prefTries, fallTries, wrote, logged>>
  /\ UNCHANGED <<case_id, stdout, exitCode, started, prompt, declared>>

\* write_done line 63: not FIFO_PATH.exists() or not FIFO_PATH.is_fifo();
\* a stat that raises sends write_done to its first except clause
\* (main's session_id is not read again once write_done runs)
ChannelCheck(p) ==
  /\ pc[p] = "check"
  /\ \E fails \in BOOLEAN :
       /\ pc' = [pc EXCEPT ![p] = IF fails THEN "fallback"
                                  ELSE IF fifoKind = "fifo" THEN "open"
                                  ELSE "unlink"]
       /\ ioError' = [ioError EXCEPT ![p] = fails]
  /\ session_id' = [session_id EXCEPT ![p] = <<>>]
  /\ UNCHANGED <<fsVars, fd, prefTries, fallTries, wrote, logged>>
  /\ UNCHANGED <<case_id, stdout, exitCode, started, prompt, declared>>

\* write_done lines 64-65: if FIFO_PATH.exists(): FIFO_PATH.unlink(...);
\* a directory cannot be unlinked
Unlink(p) ==
  /\ pc[p] = "unlink"
  /\ \E fails \in BOOLEAN :
       IF fifoKind = "absent"
       THEN /\ pc' = [pc EXCEPT ![p] = "mkfifo"]
            /\ ioError' = [ioError EXCEPT ![p] = FALSE]
            /\ UNCHANGED fifoKind
       ELSE IF fails \/ fifoKind = "dir"
            THEN /\ pc' = [pc EXCEPT ![p] = "fallback"]
                 /\ ioError' = [ioError EXCEPT ![p] = fifoKind # "dir"]
                 /\ UNCHANGED fifoKind
            ELSE /\ pc' = [pc EXCEPT ![p] = "mkfifo"]
                 /\ fifoKind' = "absent"
                 /\ ioError' = [ioError EXCEPT ![p] = FALSE]
  /\ UNCHANGED <<posix, fifoIno, readerIno, fifoData, fallbackLog, files>>
  /\ UNCHANGED <<fd, prefTries, fallTries, wrote, logged, started, prompt, declared>>
  /\ UNCHANGED <<session_id, case_id, stdout, exitCode>>

\* write_done line 66: os.mkfifo(str(FIFO_PATH)); AttributeError where the
\* platform has no mkfifo, FileExistsError when the path is taken
Mkfifo(p) ==
  /\ pc[p] = "mkfifo"
  /\ \E fails \in BOOLEAN :
       IF fails \/ ~posix \/ fifoKind # "absent"
       THEN /\ pc' = [pc EXCEPT ![p] = "fallback"]
            /\ ioError' = [ioError EXCEPT ![p] = posix /\ fifoKind = "absent"]
            /\ UNCHANGED <<fifoKind, fifoIno>>
       ELSE /\ pc' = [pc EXCEPT ![p] = "open"]
            /\ fifoKind' = "fifo"
            /\ fifoIno' = fifoIno + 1
            /\ ioError' = [ioError EXCEPT ![p] = FALSE]
  /\ UNCHANGED <<posix, readerIno, fifoData, fallbackLog, files>>
  /\ UNCHANGED <<fd, prefTries, fallTries, wrote, logged, started, prompt, declared>>
  /\ UNCHANGED <<session_id, case_id, stdout, exitCode>>

\* Open without O_NONBLOCK: the open waits until a reader has the FIFO open
OpenBlocking(p) ==
  /\ pc[p] = "open"
  /\ IF fifoKind = "fifo"
     THEN /\ readerIno = fifoIno
          /\ fd' = [fd EXCEPT ![p] = fifoIno]
          /\ pc' = [pc EXCEPT ![p] = "write"]
     ELSE /\ fd' = fd
          /\ pc' = [pc EXCEPT ![p] = "fallback"]
  /\ ioError' = [ioError EXCEPT ![p] = FALSE]
  /\ UNCHANGED <<fsVars, prefTries, fallTries, wrote, logged>>
  /\ UNCHANGED <<session_id, case_id, stdout, exitCode, started, prompt, declared>>

\* write_done line 76: os.open(FIFO_PATH, O_WRONLY | O_NONBLOCK); ENXIO when
\* no reader has the FIFO open, ENOENT when the path is gone
Open(p) ==
  /\ pc[p] = "open"
  /\ \E fails \in BOOLEAN :
       IF ~fails /\ fifoKind = "fifo" /\ readerIno = fifoIno
       THEN /\ fd' = [fd EXCEPT ![p] = fifoIno]
            /\ pc' = [pc EXCEPT ![p] = "write"]
            /\ ioError' = [ioError EXCEPT ![p] = FALSE]
       ELSE /\ fd' = fd
            /\ pc' = [pc EXCEPT ![p] = "fallback"]
            /\ ioError' = [ioError EXCEPT ![p] =
                             fifoKind = "fifo" /\ readerIno = fifoIno]
  /\ UNCHANGED <<fsVars, prefTries, fallTries, wrote, logged>>
  /\ UNCHANGED <<session_id, case_id, stdout, exitCode, started, prompt, declared>>

\* main() of pywen_stop.py after write_done returned m: the systemMessage
\* is printed and main returns 0
StopFinish(p, m) == Exit(p, <<SystemMessage(case_id[p], m)>>, 0)

\* Write with the OSError of os.write and os.close swallowed: "fifo" is
\* returned whether or not the record went into the FIFO
WriteSwallowing(p) ==
  /\ pc[p] = "write"
  /\ prefTries' = [prefTries EXCEPT ![p] = @ + 1]
  /\ \E writeFails \in BOOLEAN :
       IF ~writeFails /\ readerIno = fd[p]
       THEN /\ fifoData' = Append(fifoData, Record(case_id[p]))
            /\ wrote' = [wrote EXCEPT ![p] = TRUE]
       ELSE UNCHANGED <<fifoData, wrote>>
  /\ StopFinish(p, "fifo")
  /\ UNCHANGED <<posix, fifoKind, fifoIno, readerIno, fallbackLog, files>>
  /\ UNCHANGED <<started, prompt, declared, fallTries, logged>>

\* write_done lines 77-82: os.write(fd, record), EPIPE when the reader has
\* gone and EAGAIN when the pipe is full; finally: os.close(fd); then
\* return "fifo".  An OSError of os.write or of os.close goes to the except
\* clause of line 82.
Write(p) ==
  /\ pc[p] = "write"
  /\ prefTries' = [prefTries EXCEPT ![p] = @ + 1]
  /\ \E writeFails \in BOOLEAN, closeFails \in BOOLEAN :
       IF ~writeFails /\ readerIno = fd[p]
       THEN /\ fifoData' = Append(fifoData, Record(case_id[p]))
            /\ wrote' = [wrote EXCEPT ![p] = TRUE]
            /\ IF closeFails
               THEN /\ pc' = [pc EXCEPT ![p] = "fallback"]
                    /\ fd' = [fd EXCEPT ![p] = 0]
                    /\ ioError' = [ioError EXCEPT ![p] = TRUE]
                    /\ UNCHANGED <<session_id, case_id, stdout, exitCode>>
               ELSE StopFinish(p, "fifo")
       ELSE /\ pc' = [pc EXCEPT ![p] = "fallback"]
            /\ fd' = [fd EXCEPT ![p] = 0]
            /\ ioError' = [ioError EXCEPT ![p] = readerIno = fd[p]]
            /\ UNCHANGED <<fifoData, wrote>>
            /\ UNCHANGED <<session_id, case_id, stdout, exitCode>>
  /\ UNCHANGED <<posix, fifoKind, fifoIno, readerIno, fallbackLog, files>>
  /\ UNCHANGED <<started, prompt, declared, fallTries, logged>>

\* Fallback with the log opened with mode "w" instead of "a": the record
\* replaces what the log held
FallbackTruncating(p) ==
  /\ pc[p] = "fallback"
  /\ fallTries' = [fallTries EXCEPT ![p] = @ + 1]
  /\ \E fails \in BOOLEAN :
       IF fails
       THEN UNCHANGED <<fallbackLog, logged>>
       ELSE /\ fallbackLog' = <<Record(case_id[p])>>
            /\ logged' = [logged EXCEPT ![p] = TRUE]
  /\ StopFinish(p, "file")
  /\ UNCHANGED <<posix, fifoKind, fifoIno, readerIno, fifoData, files>>
  /\ UNCHANGED <<started, prompt, declared, prefTries, wrote>>

\* write_done lines 68-73 and 83-88: append the record to FALLBACK_LOG and
\* return "file"; return "file" as well when the append raises
Fallback(p) ==
  /\ pc[p] = "fallback"
  /\ fallTries' = [fallTries EXCEPT ![p] = @ + 1]
  /\ \E fails \in BOOLEAN :
       IF fails
       THEN UNCHANGED <<fallbackLog, logged>>
       ELSE /\ fallbackLog' = Append(fallbackLog, Record(case_id[p]))
            /\ logged' = [logged EXCEPT ![p] = TRUE]
  /\ StopFinish(p, "file")
  /\ UNCHANGED <<posix, fifoKind, fifoIno, readerIno, fifoData, files>>
  /\ UNCHANGED <<started, prompt, declared, prefTries, wrote>>

\* the listener, which is not part of the hooks, opens the FIFO for reading
ListenerAttach ==
  /\ fifoKind = "fifo"
  /\ readerIno # fifoIno
  /\ readerIno' = fifoIno
  /\ UNCHANGED <<posix, fifoKind, fifoIno, fifoData, fallbackLog, files>>
  /\ UNCHANGED <<emitVars, procVars, started, prompt, declared>>

\* the listener closes the FIFO
ListenerDetach ==
  /\ readerIno # 0
  /\ readerIno' = 0
  /\ UNCHANGED <<posix, fifoKind, fifoIno, fifoData, fallbackLog, files>>
  /\ UNCHANGED <<emitVars, procVars, started, prompt, declared>>

-----------------------------------------------------------------------------
(* Specifications.                                                         *)

\* one step of write_done in process slot p
EmitStep(p) ==
  \/ ChannelCheck(p)
  \/ Unlink(p)
  \/ Mkfifo(p)
  \/ Open(p)
  \/ Write(p)
  \/ Fallback(p)

\* one step of a hook that process slot p is running
Step(p) ==
  \/ WriteData(p)
  \/ EmitStep(p)

Next ==
  \/ \E p \in Procs : UserPromptStart(p)
  \/ \E p \in Procs : StopStart(p)
  \/ \E p \in Procs : Step(p)
  \/ ListenerAttach
  \/ ListenerDetach

\* hook processes run at the same time
Spec == Init /\ [][Next]_vars

\* no hook process is running
Quiet == \A p \in Procs : pc[p] \in {"idle", "done"}

SeqNext ==
  \/ Quiet /\ \E p \in Procs : UserPromptStart(p)
  \/ Quiet /\ \E p \in Procs : StopStart(p)
  \/ \E p \in Procs : Step(p)
  \/ ListenerAttach
  \/ ListenerDetach

\* the invocations do not overlap: one starts when the one before has ended
SeqSpec == Init /\ [][SeqNext]_vars

\* a hook process that can take a step takes it: the operating system
\* schedules every runnable process, and no step of a hook waits
FairSpec == Spec /\ \A p \in Procs : WF_vars(Step(p))

\* what a record file may hold when something other than the hooks wrote
\* it: nothing, white space only, one line, several lines, white space
\* around the lines, a byte that is no UTF-8, the text of the sentinel
Contents == {
  <<>>,
  <<" ", "\n">>,
  <<"a">>,
  <<" ", "a", " ", "\n", "b">>,
  <<"\n", "a", " ", "b", "\r", "\n", "c", "\n">>,
  <<"C3">>,
  <<"a", "C3", "\n", "C3", "A9">>,
  Utf8Encode(UNKNOWN) }

\* the directory with the record of session S written by someone else
GetInit ==
  /\ posix = TRUE
  /\ fifoKind = "absent"
  /\ fifoIno = 0
  /\ readerIno = 0
  /\ fifoData = <<>>
  /\ fallbackLog = <<>>
  /\ declared = [s \in SessionIds |-> Put(<<>>, FALSE)]
  /\ \E c \in Contents :
       files = [n \in FileNames |->
                 IF n = CasePath(S)[1]
                 THEN [exists |-> TRUE, bytes |-> c]
                 ELSE NoFile]
  /\ started = 0
  /\ pc = [p \in Procs |-> "idle"]
  /\ session_id = [p \in Procs |-> <<>>]
  /\ prompt = [p \in Procs |-> <<>>]
  /\ case_id = [p \in Procs |-> <<>>]
  /\ fd = [p \in Procs |-> 0]
  /\ wrote = [p \in Procs |-> FALSE]
  /\ stdout = [p \in Procs |-> <<>>]
  /\ exitCode = [p \in Procs |-> -1]
  /\ prefTries = [p \in Procs |-> 0]
  /\ fallTries = [p \in Procs |-> 0]
  /\ logged = [p \in Procs |-> FALSE]
  /\ ioError = [p \in Procs |-> FALSE]

StopNext ==
  \/ \E p \in Procs : StopStart(p)
  \/ \E p \in Procs : EmitStep(p)
  \/ ListenerAttach
  \/ ListenerDetach

\* only completion invocations run, at the same time, each scheduled fairly,
\* next to a listener that attaches and detaches as it likes
\* completion invocations over a record that holds any of Contents
GetSpec == GetInit /\ [][StopNext]_vars

StopFairSpec == Init /\ [][StopNext]_vars /\ \A p \in Procs : WF_vars(EmitStep(p))

-----------------------------------------------------------------------------
(* What a completion invocation did, read off its process.                 *)

\* p is inside write_done
InEmit(p) == pc[p] \in {"check", "unlink", "mkfifo", "open", "write", "fallback"}

\* p ran write_done to its return and printed the systemMessage
EmitDone(p) ==
  /\ pc[p] = "done"
  /\ stdout[p] # <<>>
  /\ stdout[p][1].type = "systemMessage"

\* the value write_done returned, as the systemMessage shows it
Returned(p) == stdout[p][1].mode

\* the terminal state of the emitter's state machine
EmitState(p) ==
  IF Returned(p) = "fifo" THEN "DeliveredPreferred"
  ELSE IF logged[p] THEN "DeliveredFallback"
  ELSE "DeliveryFailed"

\* p takes the step that leaves label
Leaves(p, label) == pc[p] = label /\ pc'[p] # label

\* p takes the step that starts a completion invocation
Gets(p) == pc[p] \in {"idle", "done"} /\ pc'[p] = "check"

-----------------------------------------------------------------------------
(* Claims.                                                                 *)

\* C1: an emit that ends in DeliveredPreferred or DeliveredFallback has
\* written its record to exactly one of the FIFO and the fallback log; the
\* record is in neither only in DeliveryFailed.
C1_ExactlyOneChannel ==
  \A p \in Procs :
    EmitDone(p) =>
      /\ EmitState(p) \in {"DeliveredPreferred", "DeliveredFallback"}
           => (wrote[p] /\ ~logged[p]) \/ (~wrote[p] /\ logged[p])
      /\ (~wrote[p] /\ ~logged[p]) => EmitState(p) = "DeliveryFailed"

\* C2: emit returns "fifo" or "file" and nothing else.  It returns "fifo"
\* exactly when its one write put the record into a FIFO and nothing sent
\* it to the fallback: an existing FIFO is opened, the open succeeds when a
\* reader is attached, and open, write and close without error end in
\* "fifo".  Without a reader, when the FIFO cannot be created, and on a
\* platform without mkfifo, the invocation goes to the fallback, which
\* returns "file".
C2_EmitReturn ==
  /\ [](\A p \in Procs :
          EmitDone(p) =>
            /\ Returned(p) \in {"fifo", "file"}
            /\ Returned(p) = "fifo" <=> (wrote[p] /\ fallTries[p] = 0)
            /\ Returned(p) = "file" <=> fallTries[p] = 1
            /\ ~posix => Returned(p) = "file")
  /\ [][\A p \in Procs :
          /\ Leaves(p, "check") /\ fifoKind = "fifo" /\ ~ioError'[p]
               => pc'[p] = "open"
          /\ Leaves(p, "mkfifo")
               => /\ pc'[p] \in {"open", "fallback"}
                  /\ pc'[p] = "open" <=>
                       (posix /\ fifoKind = "absent" /\ ~ioError'[p])
          /\ Leaves(p, "open")
               => /\ pc'[p] \in {"write", "fallback"}
                  /\ pc'[p] = "write" <=>
                       (fifoKind = "fifo" /\ readerIno = fifoIno /\ ~ioError'[p])
          /\ Leaves(p, "write")
               => IF readerIno = fd[p] /\ ~ioError'[p]
                  THEN stdout'[p] = <<SystemMessage(case_id[p], "fifo")>>
                  ELSE pc'[p] = "fallback"
          /\ Leaves(p, "fallback")
               => stdout'[p] = <<SystemMessage(case_id[p], "file")>>
      ]_vars

\* C2 witness: one invocation returned "fifo" after its write, another
\* returned "file" without having written to the FIFO.
C2_Witness ==
  \E p, q \in Procs :
    /\ EmitDone(p) /\ Returned(p) = "fifo" /\ wrote[p]
    /\ EmitDone(q) /\ Returned(q) = "file" /\ prefTries[q] = 0

\* C3: whenever emit returns "file", the fallback log is what it was before
\* plus the one line "<case_id> DONE\n".
C3_FileMeansOneNewLine ==
  [][\A p \in Procs :
       (InEmit(p) /\ EmitDone(p)' /\ Returned(p)' = "file")
         => fallbackLog' = Append(fallbackLog, Record(case_id[p]))
    ]_vars

\* C4: the value emit returns in DeliveryFailed differs from the value it
\* returns in DeliveredFallback.
C4_FailureDistinguishable ==
  \A p, q \in Procs :
    (/\ EmitDone(p) /\ EmitState(p) = "DeliveryFailed"
     /\ EmitDone(q) /\ EmitState(q) = "DeliveredFallback")
      => Returned(p) # Returned(q)

\* C5: every emit reaches a terminal state whatever fails and whether or not
\* a reader ever attaches; it ends by returning to main, which prints and
\* exits with 0; it writes to the FIFO at most once and appends to the
\* fallback log at most once.
C5_EmitTerminates ==
  /\ \A p \in Procs : InEmit(p) ~> EmitDone(p)
  /\ [](\A p \in Procs : prefTries[p] <= 1 /\ fallTries[p] <= 1)
  /\ [][\A p \in Procs :
          (InEmit(p) /\ pc'[p] = "done")
            => /\ EmitDone(p)'
               /\ exitCode'[p] = 0
               /\ EmitState(p)' \in
                    {"DeliveredPreferred", "DeliveredFallback", "DeliveryFailed"}
      ]_vars

\* C5 witness: an invocation whose write to the FIFO failed and whose
\* append failed too has ended, in DeliveryFailed.
C5_Witness ==
  \E p \in Procs :
    /\ EmitDone(p) /\ EmitState(p) = "DeliveryFailed"
    /\ prefTries[p] = 1 /\ fallTries[p] = 1

\* C6: a put(session_id, case_id) of a case_id without whitespace and
\* quotes, no system call of which failed, followed by a get(session_id)
\* that reads without failure, gives case_id.
C6_PutGetRoundTrip ==
  [][\A p \in Procs :
       (/\ Gets(p) /\ ~ioError'[p]
        /\ declared[session_id'[p]].case # <<>>
        /\ ~declared[session_id'[p]].io)
         => case_id'[p] = declared[session_id'[p]].case
    ]_vars

\* C7: after any sequence of puts that do not overlap, get(s) returns the
\* case_id of the most recent put on s.
C7_LastWriteWins ==
  Quiet =>
    \A s \in SessionIds :
      (declared[s].case # <<>> /\ ~declared[s].io)
        => read_case_id(s, FALSE) = declared[s].case

\* C8: get on a session id on which no put was ever performed gives
\* NOT_FOUND: the completion invocation resolves case_id to "UNKNOWN", and
\* emits the record for "UNKNOWN".
C8_UndeclaredIsUnknown ==
  [][\A p \in Procs :
       (Gets(p) /\ declared[session_id'[p]].case = <<>>)
         => case_id'[p] = UNKNOWN
    ]_vars

\* C9: a declaration CASE_ID=X for session S that has ended before a
\* completion invocation for S starts makes the emitter run with case_id X
\* and the systemMessage name X.
C9_EndToEnd ==
  [][\A p \in Procs :
       /\ (/\ Gets(p) /\ ~ioError'[p]
           /\ declared[session_id'[p]].case # <<>>
           /\ ~declared[session_id'[p]].io)
            => case_id'[p] = declared[session_id'[p]].case
       /\ (InEmit(p) /\ pc'[p] = "done")
            => /\ EmitDone(p)'
               /\ stdout'[p][1].case_id = case_id[p]
    ]_vars

\* C10: every invocation of either hook prints exactly one outbound event
\* and exits with code 0.
C10_OneEventExitZero ==
  \A p \in Procs :
    pc[p] = "done" => Len(stdout[p]) = 1 /\ exitCode[p] = 0

\* p takes the first step of a declaration invocation that gets into main
\* with a key/value structure
Declares(p) ==
  /\ FreeSlot(p)
  /\ started' = started + 1
  /\ pc'[p] = "put_write" \/ (pc'[p] = "done" /\ stdout'[p] # <<>>)

\* C11: a prompt that CASE_RE matches makes the invocation write the token
\* into the record of the resolved session, once (after the invocation the
\* record reads back as the token, and no other record has changed), and
\* print the "block" decision; any other prompt changes no record and
\* prints {}.
C11_DeclarationPath ==
  [][\A p \in Procs :
       /\ (Declares(p) /\ CaseReMatch(prompt'[p]) = <<>>)
            => /\ pc'[p] = "done"
               /\ stdout'[p] = <<EmptyEvent>>
               /\ files' = files
       /\ (Declares(p) /\ CaseReMatch(prompt'[p]) # <<>>)
            => \/ /\ pc'[p] = "put_write"
                  /\ case_id'[p] = CaseReMatch(prompt'[p])
               \/ /\ pc'[p] = "done"
                  /\ stdout'[p] = <<BlockEvent(CaseReMatch(prompt'[p]))>>
                  /\ files' = files
       /\ (pc[p] = "put_write" /\ pc'[p] = "done")
            => /\ stdout'[p] = <<BlockEvent(CaseReMatch(prompt[p]))>>
               /\ \A n \in FileNames \ {CasePath(session_id[p])[1]} :
                    files'[n] = files[n]
               /\ ~declared'[session_id[p]].io
                    => CaseOfBytes(files'[CasePath(session_id[p])[1]].bytes)
                         = CaseReMatch(prompt[p])
    ]_vars

\* C12: emit invocations that race on the object at FIFO_PATH do not corrupt
\* it: no step removes an object that is a FIFO when it is removed, and an
\* invocation that comes to create the FIFO and finds one already there
\* goes on to open it instead of falling back.
C12_EmitRace ==
  [][/\ fifoKind = "fifo" => fifoKind' = "fifo"
     /\ \A p \in Procs :
          (Leaves(p, "mkfifo") /\ fifoKind = "fifo" /\ ~ioError'[p])
            => pc'[p] = "open"
    ]_vars

\* process q is inside a put on the record file that p's session names
PutInFlight(q, p) ==
  /\ pc[q] = "put_write"
  /\ CasePath(session_id[q]) = CasePath(session_id[p])

\* C13: puts on one session that overlap are not merged: when a put whose
\* case_id UTF-8 encodes and whose system calls all succeed ends and no other
\* put on the session is left running, the record resolves to the case_id
\* of that put or to the case_id of the put that ended before it.
C13_OverlappingPuts ==
  [][\A p \in Procs :
       (/\ pc[p] = "put_write" /\ pc'[p] = "done"
        /\ CanEncode(case_id[p])
        /\ ~declared'[session_id[p]].io
        /\ \A q \in Procs \ {p} : ~PutInFlight(q, p))
         => CaseOfBytes(files'[CasePath(session_id[p])[1]].bytes)
              \in {case_id[p], declared[session_id[p]].case}
    ]_vars

\* C14: the fallback log is append-only and grows by whole records: every
\* step leaves the old log as a prefix of the new one; the log changes only
\* in the step in which an invocation ends having appended, and then by
\* exactly that invocation's line "<case_id> DONE\n"; every invocation that
\* ends in DeliveredFallback has added its line that way.
C14_AtomicAppends ==
  [][/\ Len(fallbackLog') >= Len(fallbackLog)
     /\ SubSeq(fallbackLog', 1, Len(fallbackLog)) = fallbackLog
     /\ fallbackLog' # fallbackLog
          => \E p \in Procs :
               /\ InEmit(p) /\ EmitDone(p)' /\ logged'[p]
               /\ fallbackLog' = Append(fallbackLog, Record(case_id[p]))
     /\ \A p \in Procs :
          (InEmit(p) /\ EmitDone(p)' /\ EmitState(p)' = "DeliveredFallback")
            => fallbackLog' = Append(fallbackLog, Record(case_id[p]))
    ]_vars

\* C14 witness: two invocations that ran at the same time have both ended
\* in DeliveredFallback; the one that started second appended first, and
\* the log holds the two whole lines.
C14_Witness ==
  /\ EmitDone(1) /\ EmitState(1) = "DeliveredFallback"
  /\ EmitDone(2) /\ EmitState(2) = "DeliveredFallback"
  /\ stdout[1][1].case_id # stdout[2][1].case_id
  /\ fallbackLog = <<Record(stdout[2][1].case_id), Record(stdout[1][1].case_id)>>

\* C15: in an emit invocation next to which no other invocation runs, an
\* object at FIFO_PATH that is a FIFO is left untouched and opened; one that
\* is not a FIFO is removed and a FIFO is created in its place; where there
\* is nothing a FIFO is created; a removal or creation that fails sends the
\* invocation to the fallback with no write to the FIFO attempted.  The
\* invocation gets to the open of the FIFO only while the object is a FIFO.
C15_ChannelCheck ==
  /\ [](\A p \in Procs :
          /\ pc[p] = "open" => fifoKind = "fifo"
          /\ pc[p] = "mkfifo" => fifoKind = "absent"
          /\ pc[p] = "unlink" => fifoKind # "fifo"
          /\ pc[p] \in {"check", "unlink", "mkfifo", "open"} => prefTries[p] = 0)
  /\ [][/\ fifoKind = "fifo" => (fifoKind' = "fifo" /\ fifoIno' = fifoIno)
        /\ \A p \in Procs :
             /\ (Leaves(p, "check") /\ ~ioError'[p])
                  => pc'[p] = IF fifoKind = "fifo" THEN "open" ELSE "unlink"
             /\ Leaves(p, "unlink")
                  => IF fifoKind = "absent" \/ (fifoKind = "file" /\ ~ioError'[p])
                     THEN pc'[p] = "mkfifo" /\ fifoKind' = "absent"
                     ELSE pc'[p] = "fallback" /\ fifoKind' = fifoKind
             /\ Leaves(p, "mkfifo")
                  => IF posix /\ ~ioError'[p]
                     THEN pc'[p] = "open" /\ fifoKind' = "fifo"
                     ELSE pc'[p] = "fallback" /\ fifoKind' = fifoKind
             /\ (pc[p] \in {"check", "unlink", "mkfifo"} /\ pc'[p] = "fallback")
                  => prefTries'[p] = 0 /\ fifoData' = fifoData
     ]_vars

\* C15 witness: an invocation stands before the open of a FIFO that no
\* reader has open and that no record went into.
C15_Witness ==
  \E p \in Procs :
    /\ pc[p] = "open" /\ fifoKind = "fifo" /\ prefTries[p] = 0
    /\ readerIno = 0 /\ fifoData = <<>> /\ started = MaxInvocations

\* C16: a put on one session leaves what get returns for every other
\* session id as it was: neither the step of the put that opens the record
\* nor the step that writes it changes get(s2) for a session id s2 other
\* than the put's.
C16_PutIndependence ==
  [][\A p \in Procs :
       /\ (Declares(p) /\ pc'[p] = "put_write")
            => \A s2 \in SessionIds \ {session_id'[p]} :
                 read_case_id(s2, FALSE)' = read_case_id(s2, FALSE)
       /\ (pc[p] = "put_write" /\ pc'[p] = "done")
            => \A s2 \in SessionIds \ {session_id[p]} :
                 read_case_id(s2, FALSE)' = read_case_id(s2, FALSE)
    ]_vars

\* C17: a put whose write fails ends like any other put (the block decision
\* is printed, the exit code is 0) and is not recorded: the record resolves
\* to what the put that ended before it had recorded, or to "UNKNOWN" when
\* there was none.  A put whose open fails changes no record.
C17_FailedPutNotRecorded ==
  [][\A p \in Procs :
       /\ (Declares(p) /\ pc'[p] = "done" /\ stdout'[p][1].type = "block")
            => files' = files /\ exitCode'[p] = 0
       /\ (pc[p] = "put_write" /\ pc'[p] = "done"
             /\ declared'[session_id[p]].io)
            => /\ exitCode'[p] = 0
               /\ stdout'[p] = <<BlockEvent(case_id[p])>>
               /\ (~declared[session_id[p]].io
                     /\ CanEncode(declared[session_id[p]].case))
                    => CaseOfBytes(files'[CasePath(session_id[p])[1]].bytes)
                         = IF declared[session_id[p]].case = <<>>
                           THEN UNKNOWN
                           ELSE declared[session_id[p]].case
    ]_vars

\* the first line of the text txt, which has a character that is no white
\* space, with the white space around it taken off: from the first such
\* character to the last one before the first line break after it
FirstLineTrimmed(txt) ==
  LET ink == {i \in 1..Len(txt) : ~IsSpace(txt[i])}
      lo == CHOOSE i \in ink : \A j \in ink : i <= j
      brk == {i \in lo..Len(txt) : txt[i] \in {"\n", "\r"}} \cup {Len(txt) + 1}
      eol == CHOOSE i \in brk : \A j \in brk : i <= j
      inl == {i \in ink : i < eol}
      hi == CHOOSE i \in inl : \A j \in inl : j <= i
  IN SubSeq(txt, lo, hi)

\* the record file of session id sid
RecordOf(sid) == files[CasePath(sid)[1]]

\* the record of sid is missing or holds nothing but white space
NothingToRead(sid) ==
  \/ ~InCaseDir(CasePath(sid))
  \/ ~RecordOf(sid).exists
  \/ \A i \in 1..Len(Utf8DecodeIgnore(RecordOf(sid).bytes)) :
       IsSpace(Utf8DecodeIgnore(RecordOf(sid).bytes)[i])

\* C18 as stated: get returns "UNKNOWN" exactly when the record does not
\* exist, reading it raises, or it holds nothing but white space; otherwise
\* it returns the first line, trimmed.
C18_GetExactly ==
  [][\A p \in Procs :
       Gets(p) =>
         /\ case_id'[p] = UNKNOWN
              <=> (ioError'[p] \/ NothingToRead(session_id'[p]))
         /\ case_id'[p] # UNKNOWN
              => case_id'[p] =
                   FirstLineTrimmed(Utf8DecodeIgnore(RecordOf(session_id'[p]).bytes))
    ]_vars

\* C18, amended: get always returns a value; it returns "UNKNOWN" when the
\* record does not exist, reading it raises, or it holds nothing but white
\* space; otherwise it returns the first line of the content, trimmed, and
\* nothing of the lines after it (which is "UNKNOWN" too when that is what
\* the first line says).
C18_GetTotal ==
  [][\A p \in Procs :
       Gets(p) =>
         /\ case_id'[p] # <<>>
         /\ case_id'[p] =
              IF ioError'[p] \/ NothingToRead(session_id'[p])
              THEN UNKNOWN
              ELSE FirstLineTrimmed(Utf8DecodeIgnore(RecordOf(session_id'[p]).bytes))
    ]_vars

\* C18 witness: get has read a record of three lines with white space
\* around them and returned the first line without the white space.
C18_Witness ==
  \E p \in Procs :
    /\ pc[p] = "check"
    /\ RecordOf(S).bytes = <<"\n", "a", " ", "b", "\r", "\n", "c", "\n">>
    /\ case_id[p] = <<"a", " ", "b">>

\* p takes a step of a completion invocation
Completes(p) ==
  \/ Gets(p)
  \/ InEmit(p) /\ pc'[p] # pc[p]

\* C19: no step of a completion invocation, from its start to whichever
\* terminal state it ends in, changes what a record of the registry
\* resolves to: get(s) returns after the step what it returned before it,
\* for every session s, whose record is one of the files of CASE_DIR;
\* the steps of the emitter change nothing but the object at FIFO_PATH and
\* the fallback log.
C19_CompletionReadsOnly ==
  [][\A p \in Procs :
       Completes(p) =>
         /\ \A n \in FileNames :
              \/ files'[n] = files[n]
              \/ /\ files'[n].exists = files[n].exists
                 /\ CaseOfBytes(files'[n].bytes) = CaseOfBytes(files[n].bytes)
         /\ InEmit(p) => (files' = files /\ declared' = declared)
    ]_vars

\* C19 witness: a completion invocation for a session whose record holds
\* "a" has ended with its record in the FIFO, and the record file is as it
\* was.
C19_Witness ==
  \E p \in Procs :
    /\ EmitDone(p) /\ EmitState(p) = "DeliveredPreferred"
    /\ stdout[p][1].case_id = <<"a">>
    /\ RecordOf(S) = [exists |-> TRUE, bytes |-> <<"a">>]
    /\ fifoData # <<>>

\* C20: a get on a session that has declared a case, taken while one put of
\* an encodable case_id on that session is under way, returns the case_id
\* declared before or the case_id of the put: not "UNKNOWN", not a part or
\* a mix of the two.
C20_GetDuringPut ==
  [][\A p, q \in Procs :
       (/\ Gets(p) /\ ~ioError'[p]
        /\ pc[q] = "put_write" /\ session_id[q] = session_id'[p]
        /\ CanEncode(case_id[q])
        /\ declared[session_id[q]].case # <<>>
        /\ ~declared[session_id[q]].io
        /\ CanEncode(declared[session_id[q]].case))
         => case_id'[p] \in {declared[session_id[q]].case, case_id[q]}
    ]_vars

====
